---- MODULE Spec2Model ----
(***************************************************************************)
(* State-machine model of OOP/P09_BankAccount.py (class BankAccount).     *)
(*                                                                         *)
(* Balances are Python decimal.Decimal values.  A Decimal is built        *)
(* exactly from its string, but every arithmetic result is rounded by the  *)
(* decimal context (precision, ROUND_HALF_EVEN) and signals Overflow above *)
(* the context's largest exponent; InvalidOperation and Overflow are       *)
(* trapped, i.e. raised as exceptions.  Python's context has 28 digits     *)
(* and exponent limit 999999; the model keeps the same rules with the      *)
(* small context (Prec, Emax), so that the rounded and the overflowing     *)
(* cases arise with small numbers.  Finite amounts are whole multiples of  *)
(* the smallest unit in play.                                              *)
(*                                                                         *)
(* The second part models Programs/P30_Array.py (class Array): one Array    *)
(* object, its constructor and its insert, delete and search methods.      *)
(* Python index i is position i + 1 of the TLA+ sequence `items`.          *)
(***************************************************************************)
EXTENDS Integers, Sequences, FiniteSets, TLC

VARIABLES
    accounts,             \* the BankAccount objects built so far, in order
    next_account_number,  \* class attribute BankAccount._next_account_number
    last,                 \* the call just made: arguments, outcome, state before
    ledger,               \* history: per account, the exact (unrounded) sum
    nops,                 \* history: number of calls made
    size,                 \* Array.size (0 while no Array has been built)
    items,                \* Array.items
    alast,                \* the Array call just made: arguments, outcome, items before
    threads               \* per thread: position in BankAccount.__init__ and its object

arrVars == <<size, items, alast>>

vars == <<accounts, next_account_number, last, ledger, nops, size, items, alast, threads>>

\* ---------------------------------------------------------------- bounds
MaxAccounts == 2
MaxOps == 3
Prec == 2
Emax == 2
MaxSize == 3
MaxValue == 2
MaxThreads == 2
MaxOpened == 3

\* ------------------------------------------------------- program constant
FirstAccountNumber == 1000

\* ------------------------------------------------------- Decimal values
Fin(n) == [k |-> "F", n |-> n]
Infinity == [k |-> "I", n |-> 1]
NegInfinity == [k |-> "I", n |-> -1]
NaN == [k |-> "N", n |-> 0]

IsFinite(x) == x.k = "F"
IsNaN(x) == x.k = "N"

Abs(n) == IF n < 0 THEN -n ELSE n

RECURSIVE Pow10(_)
Pow10(e) == IF e <= 0 THEN 1 ELSE 10 * Pow10(e - 1)

RECURSIVE Digits(_)
Digits(n) == IF n < 10 THEN 1 ELSE 1 + Digits(n \div 10)

\* Coefficient rounded to Prec significant digits, ties to even.
RoundHalfEven(n) ==
    LET a == Abs(n)
        d == Digits(a)
    IN  IF d <= Prec THEN n
        ELSE LET q == Pow10(d - Prec)
                 m == a \div q
                 r == a % q
                 up == (2 * r > q) \/ (2 * r = q /\ m % 2 = 1)
                 v == (IF up THEN m + 1 ELSE m) * q
             IN  IF n < 0 THEN -v ELSE v

\* The context applied to an exact finite result: round, then trap Overflow.
Finalize(n) ==
    LET r == RoundHalfEven(n)
    IN  IF r # 0 /\ Digits(Abs(r)) - 1 > Emax
        THEN [exc |-> "Overflow", val |-> NaN]
        ELSE [exc |-> "", val |-> Fin(r)]

\* x + y and x - y under the context (operands are never NaN here).
DecAdd(x, y) ==
    IF IsFinite(x) /\ IsFinite(y) THEN Finalize(x.n + y.n)
    ELSE IF ~IsFinite(x) /\ ~IsFinite(y) /\ x.n # y.n
         THEN [exc |-> "InvalidOperation", val |-> NaN]
    ELSE [exc |-> "", val |-> IF IsFinite(x) THEN y ELSE x]

DecNeg(x) == [x EXCEPT !.n = -x.n]

DecSub(x, y) == DecAdd(x, DecNeg(y))

\* x < y for operands that are not NaN.
DecLess(x, y) ==
    IF IsFinite(x) /\ IsFinite(y) THEN x.n < y.n
    ELSE IF IsFinite(x) THEN y.n > 0
    ELSE IF IsFinite(y) THEN x.n < 0
    ELSE x.n < y.n

Zero == Fin(0)

\* ------------------------------------------------- Python argument values
IntArg(n) == [type |-> "int", n |-> n, s |-> ""]
StrArg(s) == [type |-> "str", n |-> 0, s |-> s]
NoneArg == [type |-> "NoneType", n |-> 0, s |-> "None"]

\* Decimal(str(x)): exact, no context rounding; raises InvalidOperation on a
\* string that is no numeric literal.
ToDecimal(x) ==
    IF x.type = "int" THEN [exc |-> "", val |-> Fin(x.n)]
    ELSE IF x.type = "str" /\ x.s \in {"Infinity", "inf"} THEN [exc |-> "", val |-> Infinity]
    ELSE IF x.type = "str" /\ x.s \in {"-Infinity", "-inf"} THEN [exc |-> "", val |-> NegInfinity]
    ELSE IF x.type = "str" /\ x.s \in {"NaN", "nan"} THEN [exc |-> "", val |-> NaN]
    ELSE [exc |-> "InvalidOperation", val |-> NaN]

\* ------------------------------------------------------------ holder names
StrName(cs) == [type |-> "str", chars |-> cs]
NonStrName == [type |-> "int", chars |-> <<>>]

RECURSIVE lstrip(_)
lstrip(cs) == IF cs # <<>> /\ Head(cs) = " " THEN lstrip(Tail(cs)) ELSE cs

RECURSIVE rstrip(_)
rstrip(cs) ==
    IF cs # <<>> /\ cs[Len(cs)] = " " THEN rstrip(SubSeq(cs, 1, Len(cs) - 1)) ELSE cs

strip(cs) == rstrip(lstrip(cs))

\* ------------------------------------------------------------ the methods
\* Variant of __init__ that never advances the class counter.
init_no_increment(name, initial_balance, next) ==
    LET c == ToDecimal(initial_balance)
        none == [account_number |-> 0, name |-> <<>>, balance |-> Zero]
    IN  IF name.type # "str" \/ strip(name.chars) = <<>>
        THEN [exc |-> "ValueError", account |-> none, next |-> next]
        ELSE IF c.exc # "" \/ IsNaN(c.val)
        THEN [exc |-> "InvalidAmountError", account |-> none, next |-> next]
        ELSE IF DecLess(c.val, Zero)
        THEN [exc |-> "ValueError", account |-> none, next |-> next]
        ELSE [exc |-> "",
              account |-> [account_number |-> next,
                           name |-> strip(name.chars),
                           balance |-> c.val],
              next |-> next]

\* Variant of __init__ that advances the class counter before validating.
init_counts_attempts(name, initial_balance, next) ==
    LET c == ToDecimal(initial_balance)
        none == [account_number |-> 0, name |-> <<>>, balance |-> Zero]
    IN  IF name.type # "str" \/ strip(name.chars) = <<>>
        THEN [exc |-> "ValueError", account |-> none, next |-> next + 1]
        ELSE IF c.exc # "" \/ IsNaN(c.val)
        THEN [exc |-> "InvalidAmountError", account |-> none, next |-> next + 1]
        ELSE IF DecLess(c.val, Zero)
        THEN [exc |-> "ValueError", account |-> none, next |-> next + 1]
        ELSE [exc |-> "",
              account |-> [account_number |-> next,
                           name |-> strip(name.chars),
                           balance |-> c.val],
              next |-> next + 1]

\* Variant of __init__ whose except clause also catches the ValueError raised
\* for a negative balance, turning it into InvalidAmountError.
init_catches_value_error(name, initial_balance, next) ==
    LET c == ToDecimal(initial_balance)
        none == [account_number |-> 0, name |-> <<>>, balance |-> Zero]
    IN  IF name.type # "str" \/ strip(name.chars) = <<>>
        THEN [exc |-> "ValueError", account |-> none, next |-> next]
        ELSE IF c.exc # "" \/ IsNaN(c.val)
        THEN [exc |-> "InvalidAmountError", account |-> none, next |-> next]
        ELSE IF DecLess(c.val, Zero)
        THEN [exc |-> "InvalidAmountError", account |-> none, next |-> next]
        ELSE [exc |-> "",
              account |-> [account_number |-> next,
                           name |-> strip(name.chars),
                           balance |-> c.val],
              next |-> next + 1]

\* BankAccount.__init__(name, initial_balance) with the class counter `next`.
init(name, initial_balance, next) ==
    LET c == ToDecimal(initial_balance)
        none == [account_number |-> 0, name |-> <<>>, balance |-> Zero]
    IN  IF name.type # "str" \/ strip(name.chars) = <<>>
        THEN [exc |-> "ValueError", account |-> none, next |-> next]
        ELSE IF c.exc # "" \/ IsNaN(c.val)
        THEN [exc |-> "InvalidAmountError", account |-> none, next |-> next]
        ELSE IF DecLess(c.val, Zero)
        THEN [exc |-> "ValueError", account |-> none, next |-> next]
        ELSE [exc |-> "",
              account |-> [account_number |-> next,
                           name |-> strip(name.chars),
                           balance |-> c.val],
              next |-> next + 1]

\* BankAccount.deposit(amount) on an account whose balance is `balance`.
deposit(balance, amount) ==
    LET c == ToDecimal(amount)
        fail(e) == [exc |-> e, balance |-> balance, ret |-> <<>>]
    IN  IF c.exc # "" \/ IsNaN(c.val) THEN fail("InvalidAmountError")
        ELSE IF ~DecLess(Zero, c.val) THEN fail("InvalidAmountError")
        ELSE LET s == DecAdd(balance, c.val)
             IN  IF s.exc # "" THEN fail(s.exc)
                 ELSE [exc |-> "", balance |-> s.val, ret |-> <<s.val>>]

\* Variant of withdraw without the insufficient-funds check.
withdraw_no_funds_check(balance, amount) ==
    LET c == ToDecimal(amount)
        fail(e) == [exc |-> e, balance |-> balance, ret |-> <<>>]
    IN  IF c.exc # "" \/ IsNaN(c.val) THEN fail("InvalidAmountError")
        ELSE IF ~DecLess(Zero, c.val) THEN fail("InvalidAmountError")
        ELSE LET s == DecSub(balance, c.val)
             IN  IF s.exc # "" THEN fail(s.exc)
                 ELSE [exc |-> "", balance |-> s.val, ret |-> <<s.val>>]

\* Variant of withdraw that debits the balance before the funds check raises.
withdraw_debits_first(balance, amount) ==
    LET c == ToDecimal(amount)
        fail(e) == [exc |-> e, balance |-> balance, ret |-> <<>>]
    IN  IF c.exc # "" \/ IsNaN(c.val) THEN fail("InvalidAmountError")
        ELSE IF ~DecLess(Zero, c.val) THEN fail("InvalidAmountError")
        ELSE LET s == DecSub(balance, c.val)
             IN  IF s.exc # "" THEN fail(s.exc)
                 ELSE IF DecLess(balance, c.val)
                 THEN [exc |-> "InsufficientFundsError", balance |-> s.val, ret |-> <<>>]
                 ELSE [exc |-> "", balance |-> s.val, ret |-> <<s.val>>]

\* BankAccount.withdraw(amount) on an account whose balance is `balance`.
withdraw(balance, amount) ==
    LET c == ToDecimal(amount)
        fail(e) == [exc |-> e, balance |-> balance, ret |-> <<>>]
    IN  IF c.exc # "" \/ IsNaN(c.val) THEN fail("InvalidAmountError")
        ELSE IF ~DecLess(Zero, c.val) THEN fail("InvalidAmountError")
        ELSE IF DecLess(balance, c.val) THEN fail("InsufficientFundsError")
        ELSE LET s == DecSub(balance, c.val)
             IN  IF s.exc # "" THEN fail(s.exc)
                 ELSE [exc |-> "", balance |-> s.val, ret |-> <<s.val>>]

\* `other` = NotAnAccount stands for an argument that is no BankAccount.
NotAnAccount == 0

\* Variant of transfer_to that validates the amount before the destination.
transfer_to_amount_first(accts, self, other, amount) ==
    LET w == withdraw(accts[self].balance, amount)
    IN  IF w.exc # ""
        THEN [exc |-> w.exc, accounts |-> accts, ret |-> <<>>]
        ELSE IF other = NotAnAccount
        THEN [exc |-> "TypeError", accounts |-> accts, ret |-> <<>>]
        ELSE LET a1 == [accts EXCEPT ![self].balance = w.balance]
                 d == deposit(a1[other].balance, amount)
             IN  IF d.exc # ""
                 THEN [exc |-> d.exc, accounts |-> a1, ret |-> <<>>]
                 ELSE LET a2 == [a1 EXCEPT ![other].balance = d.balance]
                      IN  [exc |-> "", accounts |-> a2,
                           ret |-> <<a2[self].balance, a2[other].balance>>]

\* Variant of transfer_to that credits every account but the sender.
transfer_to_credits_all(accts, self, other, amount) ==
    IF other = NotAnAccount
    THEN [exc |-> "TypeError", accounts |-> accts, ret |-> <<>>]
    ELSE LET w == withdraw(accts[self].balance, amount)
         IN  IF w.exc # ""
             THEN [exc |-> w.exc, accounts |-> accts, ret |-> <<>>]
             ELSE LET a1 == [accts EXCEPT ![self].balance = w.balance]
                      d == deposit(a1[other].balance, amount)
                  IN  IF d.exc # ""
                      THEN [exc |-> d.exc, accounts |-> a1, ret |-> <<>>]
                      ELSE LET a2 == [k \in DOMAIN a1 |->
                                         IF k = self /\ k # other THEN a1[k]
                                         ELSE [a1[k] EXCEPT !.balance = d.balance]]
                           IN  [exc |-> "", accounts |-> a2,
                                ret |-> <<a2[self].balance, a2[other].balance>>]

\* BankAccount.transfer_to(other_account, amount) called on accts[self].
transfer_to(accts, self, other, amount) ==
    IF other = NotAnAccount
    THEN [exc |-> "TypeError", accounts |-> accts, ret |-> <<>>]
    ELSE LET w == withdraw(accts[self].balance, amount)
         IN  IF w.exc # ""
             THEN [exc |-> w.exc, accounts |-> accts, ret |-> <<>>]
             ELSE LET a1 == [accts EXCEPT ![self].balance = w.balance]
                      d == deposit(a1[other].balance, amount)
                  IN  IF d.exc # ""
                      THEN [exc |-> d.exc, accounts |-> a1, ret |-> <<>>]
                      ELSE LET a2 == [a1 EXCEPT ![other].balance = d.balance]
                           IN  [exc |-> "", accounts |-> a2,
                                ret |-> <<a2[self].balance, a2[other].balance>>]

\* Variant of __eq__ that compares holder name and balance, not the number.
eq_by_fields(accts, self, other) ==
    /\ other # NotAnAccount
    /\ accts[self].name = accts[other].name
    /\ accts[self].balance = accts[other].balance

\* BankAccount.__eq__(other) called on accts[self].
eq(accts, self, other) ==
    IF other = NotAnAccount THEN FALSE
    ELSE accts[self].account_number = accts[other].account_number

\* ----------------------------------------------------------------- inputs
BigAmount == 9 * Pow10(Emax)

IntInputs == {-5, 0, 5, BigAmount}

AmountInputs ==
    {IntArg(n) : n \in IntInputs}
        \cup {StrArg("Infinity"), StrArg("NaN"), StrArg("invalid")}

NameInputs ==
    {StrName(<<"A">>), StrName(<<" ", "B", " ">>), StrName(<<" ">>), NonStrName}

\* ------------------------------------------------ exact (history) ledger
\* The mathematical sum and difference, with no context applied: what the
\* properties below compare the balances against.
ExactAdd(x, y) == IF IsFinite(x) /\ IsFinite(y) THEN Fin(x.n + y.n) ELSE Infinity
ExactSub(x, y) == IF IsFinite(x) /\ IsFinite(y) THEN Fin(x.n - y.n) ELSE Infinity

Call(op, self, other, name, amount, exc, ret) ==
    [op |-> op, self |-> self, other |-> other, name |-> name, amount |-> amount,
     exc |-> exc, ret |-> ret, pre |-> accounts, pre_next |-> next_account_number,
     eq |-> FALSE]

\* ================================================================ Array
\* Python's None, the marker of an empty slot; stored values are 1..MaxValue.
None == 0

Values == 1..MaxValue

Elements == Values \cup {None}

\* items[i] and items[i] = v, for a Python index i.
Get(its, i) == its[i + 1]
Set(its, i, v) == [its EXCEPT ![i + 1] = v]
InRange(its, i) == i \in 0..(Len(its) - 1)

\* Constructor arguments.
IntSize(n) == [type |-> "int", n |-> n]
NonIntSize == [type |-> "str", n |-> 0]
NoDefault == [kind |-> "none", v |-> None, l |-> <<>>]
SingleDefault(v) == [kind |-> "value", v |-> v, l |-> <<>>]
ListDefault(l) == [kind |-> "list", v |-> None, l |-> l]

\* [x] * n
Repeat(x, n) == [i \in 1..n |-> x]

\* A constructor that copies the list and does not pad it with None.
array_init_no_padding(sz, default_value) ==
    LET fail(e) == [exc |-> e, size |-> 0, items |-> <<>>]
    IN  IF sz.type # "int" THEN fail("TypeError")
        ELSE IF sz.n <= 0 THEN fail("ValueError")
        ELSE IF default_value.kind = "none" \/
                (default_value.kind = "value" /\ default_value.v = None)
        THEN [exc |-> "", size |-> sz.n, items |-> Repeat(None, sz.n)]
        ELSE IF default_value.kind = "list"
        THEN IF Len(default_value.l) > sz.n THEN fail("ValueError")
             ELSE [exc |-> "", size |-> sz.n, items |-> default_value.l]
        ELSE [exc |-> "", size |-> sz.n, items |-> Repeat(default_value.v, sz.n)]

\* Array.__init__(size, default_value)
array_init(sz, default_value) ==
    LET fail(e) == [exc |-> e, size |-> 0, items |-> <<>>]
    IN  IF sz.type # "int" THEN fail("TypeError")
        ELSE IF sz.n <= 0 THEN fail("ValueError")
        ELSE IF default_value.kind = "none" \/
                (default_value.kind = "value" /\ default_value.v = None)
        THEN [exc |-> "", size |-> sz.n, items |-> Repeat(None, sz.n)]
        ELSE IF default_value.kind = "list"
        THEN IF Len(default_value.l) > sz.n THEN fail("ValueError")
             ELSE [exc |-> "", size |-> sz.n,
                   items |-> default_value.l \o Repeat(None, sz.n - Len(default_value.l))]
        ELSE [exc |-> "", size |-> sz.n, items |-> Repeat(default_value.v, sz.n)]

\* Array.get_length(): the number of slots that are not None.
get_length(its) == Cardinality({i \in DOMAIN its : its[i] # None})

\* The same copies made from the lowest index upwards (not what the loop does).
RECURSIVE shift_loop_ascending(_, _, _)
shift_loop_ascending(its, i, stop) ==
    IF i <= stop THEN [exc |-> "", items |-> its]
    ELSE LET r == shift_loop_ascending(its, i - 1, stop)
         IN  IF r.exc # "" THEN r
             ELSE IF ~InRange(r.items, i) \/ ~InRange(r.items, i - 1)
             THEN [exc |-> "IndexError", items |-> r.items]
             ELSE [exc |-> "", items |-> Set(r.items, i, Get(r.items, i - 1))]

\* for i in range(start, stop, -1): items[i] = items[i - 1]
\* An index outside the list raises IndexError and ends the loop.
RECURSIVE shift_loop(_, _, _)
shift_loop(its, i, stop) ==
    IF i <= stop THEN [exc |-> "", items |-> its]
    ELSE IF ~InRange(its, i) \/ ~InRange(its, i - 1)
    THEN [exc |-> "IndexError", items |-> its]
    ELSE shift_loop(Set(its, i, Get(its, i - 1)), i - 1, stop)

\* The store without the shift before it.
store_without_shift(its, index, element) ==
    IF ~InRange(its, index) THEN [exc |-> "IndexError", items |-> its]
    ELSE [exc |-> "", items |-> Set(its, index, element)]

\* The shift followed by `items[index] = element`.
shift_and_store(its, index, element) ==
    LET sh == shift_loop(its, get_length(its), index)
    IN  IF sh.exc # "" THEN sh
        ELSE IF ~InRange(sh.items, index) THEN [exc |-> "IndexError", items |-> sh.items]
        ELSE [exc |-> "", items |-> Set(sh.items, index, element)]

\* insert_first growing the list the way list.insert(0, element) would.
insert_first_growing(its, sz, element) ==
    IF get_length(its) >= sz THEN [exc |-> "ArrayError", items |-> its]
    ELSE [exc |-> "", items |-> <<element>> \o its]

\* insert_first storing the element before it tests for a full array.
insert_first_stores_before_check(its, sz, element) ==
    IF get_length(its) >= sz THEN [exc |-> "ArrayError", items |-> Set(its, 0, element)]
    ELSE shift_and_store(its, 0, element)

\* Array.insert_first(element)
insert_first(its, sz, element) ==
    IF get_length(its) >= sz THEN [exc |-> "ArrayError", items |-> its]
    ELSE shift_and_store(its, 0, element)

\* insert_at_index with a fullness test that lets a full array through.
insert_at_index_full_off_by_one(its, sz, index, element) ==
    IF get_length(its) > sz THEN [exc |-> "ArrayError", items |-> its]
    ELSE IF index < 0 \/ index > get_length(its) THEN [exc |-> "IndexError", items |-> its]
    ELSE shift_and_store(its, index, element)

\* insert_at_index refusing the boundary index get_length() as well.
insert_at_index_rejects_end(its, sz, index, element) ==
    IF get_length(its) >= sz THEN [exc |-> "ArrayError", items |-> its]
    ELSE IF index < 0 \/ index >= get_length(its) THEN [exc |-> "IndexError", items |-> its]
    ELSE shift_and_store(its, index, element)

\* Array.insert_at_index(index, element)
insert_at_index(its, sz, index, element) ==
    IF get_length(its) >= sz THEN [exc |-> "ArrayError", items |-> its]
    ELSE IF index < 0 \/ index > get_length(its) THEN [exc |-> "IndexError", items |-> its]
    ELSE shift_and_store(its, index, element)

\* insert_after_index delegating without the + 1.
insert_after_index_no_offset(its, sz, index, element) ==
    IF get_length(its) >= sz THEN [exc |-> "ArrayError", items |-> its]
    ELSE IF index < 0 \/ index >= get_length(its) THEN [exc |-> "IndexError", items |-> its]
    ELSE insert_at_index(its, sz, index, element)

\* insert_after_index with its two checks in the other order.
insert_after_index_index_first(its, sz, index, element) ==
    IF index < 0 \/ index >= get_length(its) THEN [exc |-> "IndexError", items |-> its]
    ELSE IF get_length(its) >= sz THEN [exc |-> "ArrayError", items |-> its]
    ELSE insert_at_index(its, sz, index + 1, element)

\* Array.insert_after_index(index, element)
insert_after_index(its, sz, index, element) ==
    IF get_length(its) >= sz THEN [exc |-> "ArrayError", items |-> its]
    ELSE IF index < 0 \/ index >= get_length(its) THEN [exc |-> "IndexError", items |-> its]
    ELSE insert_at_index(its, sz, index + 1, element)

\* insert_before_index refusing the boundary index get_length().
insert_before_index_rejects_end(its, sz, index, element) ==
    IF get_length(its) >= sz THEN [exc |-> "ArrayError", items |-> its]
    ELSE IF index < 0 \/ index >= get_length(its) THEN [exc |-> "IndexError", items |-> its]
    ELSE insert_at_index(its, sz, index, element)

\* Array.insert_before_index(index, element)
insert_before_index(its, sz, index, element) ==
    IF get_length(its) >= sz THEN [exc |-> "ArrayError", items |-> its]
    ELSE IF index < 0 \/ index > get_length(its) THEN [exc |-> "IndexError", items |-> its]
    ELSE insert_at_index(its, sz, index, element)

\* list.index(element): the lowest Python index holding element, or NotFound
\* where Python raises ValueError.
NotFound == -1

index_of(its, element) ==
    LET hits == {i \in DOMAIN its : its[i] = element}
    IN  IF hits = {} THEN NotFound
        ELSE (CHOOSE i \in hits : \A j \in hits : i <= j) - 1

\* A delete that does not match the empty marker.
delete_skips_none(its, element) ==
    LET ix == index_of(its, element)
    IN  IF ix = NotFound \/ element = None THEN [found |-> FALSE, items |-> its]
        ELSE [found |-> TRUE, items |-> Set(its, ix, None)]

\* A delete that reports success but leaves the slot as it is.
delete_without_clearing(its, element) ==
    [found |-> index_of(its, element) # NotFound, items |-> its]

\* A delete that clears the highest matching slot instead of the lowest.
delete_last_occurrence(its, element) ==
    LET hits == {i \in DOMAIN its : its[i] = element}
    IN  IF hits = {} THEN [found |-> FALSE, items |-> its]
        ELSE [found |-> TRUE,
              items |-> [its EXCEPT ![CHOOSE i \in hits : \A j \in hits : i >= j] = None]]

\* A delete that reports success whether or not the element was there.
delete_always_true(its, element) ==
    LET ix == index_of(its, element)
    IN  IF ix = NotFound THEN [found |-> TRUE, items |-> its]
        ELSE [found |-> TRUE, items |-> Set(its, ix, None)]

\* A delete that closes the gap it makes (not what Array.delete does).
delete_compacting(its, element) ==
    LET ix == index_of(its, element)
    IN  IF ix = NotFound THEN [found |-> FALSE, items |-> its]
        ELSE [found |-> TRUE,
              items |-> [i \in DOMAIN its |->
                            IF i < ix + 1 THEN its[i]
                            ELSE IF i < Len(its) THEN its[i + 1] ELSE None]]

\* Array.delete(element)
delete(its, element) ==
    LET ix == index_of(its, element)
    IN  IF ix = NotFound THEN [found |-> FALSE, items |-> its]
        ELSE [found |-> TRUE, items |-> Set(its, ix, None)]

\* A search that looks at the first get_length() slots only.
search_prefix_only(its, element) ==
    LET ix == index_of(its, element)
    IN  IF ix # NotFound /\ ix < get_length(its) THEN ix ELSE NotFound

\* Array.search(element): the index, or NotFound for Python's None.
search(its, element) == index_of(its, element)

\* Inputs of the Array calls.
SizeInputs == {IntSize(n) : n \in (-1)..MaxSize} \cup {NonIntSize}

ListInputs == UNION {[1..n -> Elements] : n \in 0..(MaxSize + 1)}

DefaultInputs ==
    {NoDefault} \cup {SingleDefault(v) : v \in Values} \cup {ListDefault(l) : l \in ListInputs}

IndexInputs == (-1)..MaxSize

ArrayCall(op, index, element, exc, found, ret) ==
    [op |-> op, index |-> index, element |-> element, sz |-> IntSize(size),
     default |-> NoDefault, exc |-> exc, found |-> found, ret |-> ret, pre |-> items]

NoArrayCall ==
    [op |-> "none", index |-> 0, element |-> None, sz |-> IntSize(0),
     default |-> NoDefault, exc |-> "", found |-> FALSE, ret |-> NotFound, pre |-> <<>>]

\* ============================================ concurrent construction
\* Threads that each evaluate BankAccount(name, initial_balance) once.
Threads == 1..MaxThreads

\* A thread before its call; `account` is the object under construction.
NotStarted ==
    [pc |-> "start", exc |-> "",
     account |-> [account_number |-> 0, name |-> <<>>, balance |-> Zero]]

\* ---------------------------------------------------------------- actions
Init ==
    /\ accounts = <<>>
    /\ next_account_number = FirstAccountNumber
    /\ last = [op |-> "none", self |-> 0, other |-> 0, name |-> NonStrName,
               amount |-> NoneArg, exc |-> "", ret |-> <<>>, pre |-> <<>>,
               pre_next |-> FirstAccountNumber, eq |-> FALSE]
    /\ ledger = <<>>
    /\ nops = 0
    /\ size = 0
    /\ items = <<>>
    /\ alast = NoArrayCall
    /\ threads = [t \in Threads |-> NotStarted]

\* a = BankAccount(name, initial_balance)
Construct(name, initial_balance) ==
    /\ nops < MaxOps
    /\ Len(accounts) < MaxAccounts
    /\ LET r == init(name, initial_balance, next_account_number)
       IN  /\ accounts' = IF r.exc = "" THEN Append(accounts, r.account) ELSE accounts
           /\ ledger' = IF r.exc = "" THEN Append(ledger, r.account.balance) ELSE ledger
           /\ next_account_number' = r.next
           /\ last' = Call("init", 0, 0, name, initial_balance, r.exc, <<>>)
    /\ nops' = nops + 1
    /\ UNCHANGED <<arrVars, threads>>

\* accounts[i].deposit(amount)
Deposit(i, amount) ==
    /\ nops < MaxOps
    /\ i \in DOMAIN accounts
    /\ LET r == deposit(accounts[i].balance, amount)
       IN  /\ accounts' = [accounts EXCEPT ![i].balance = r.balance]
           /\ ledger' = IF r.exc = ""
                        THEN [ledger EXCEPT ![i] = ExactAdd(@, ToDecimal(amount).val)]
                        ELSE ledger
           /\ last' = Call("deposit", i, 0, NonStrName, amount, r.exc, r.ret)
    /\ nops' = nops + 1
    /\ UNCHANGED next_account_number
    /\ UNCHANGED <<arrVars, threads>>

\* accounts[i].withdraw(amount)
Withdraw(i, amount) ==
    /\ nops < MaxOps
    /\ i \in DOMAIN accounts
    /\ LET r == withdraw(accounts[i].balance, amount)
       IN  /\ accounts' = [accounts EXCEPT ![i].balance = r.balance]
           /\ ledger' = IF r.exc = ""
                        THEN [ledger EXCEPT ![i] = ExactSub(@, ToDecimal(amount).val)]
                        ELSE ledger
           /\ last' = Call("withdraw", i, 0, NonStrName, amount, r.exc, r.ret)
    /\ nops' = nops + 1
    /\ UNCHANGED next_account_number
    /\ UNCHANGED <<arrVars, threads>>

\* accounts[i].transfer_to(other, amount); other = NotAnAccount is a non-account
TransferTo(i, other, amount) ==
    /\ nops < MaxOps
    /\ i \in DOMAIN accounts
    /\ other \in DOMAIN accounts \cup {NotAnAccount}
    /\ LET r == transfer_to(accounts, i, other, amount)
           v == ToDecimal(amount).val
           wOk == other # NotAnAccount /\ withdraw(accounts[i].balance, amount).exc = ""
           l1 == IF wOk THEN [ledger EXCEPT ![i] = ExactSub(@, v)] ELSE ledger
       IN  /\ accounts' = r.accounts
           /\ ledger' = IF r.exc = "" THEN [l1 EXCEPT ![other] = ExactAdd(@, v)] ELSE l1
           /\ last' = Call("transfer_to", i, other, NonStrName, amount, r.exc, r.ret)
    /\ nops' = nops + 1
    /\ UNCHANGED next_account_number
    /\ UNCHANGED <<arrVars, threads>>

\* accounts[i] == other; other = NotAnAccount is a non-account
Equals(i, other) ==
    /\ nops < MaxOps
    /\ i \in DOMAIN accounts
    /\ other \in DOMAIN accounts \cup {NotAnAccount}
    /\ last' = [Call("eq", i, other, NonStrName, NoneArg, "", <<>>)
                    EXCEPT !.eq = eq(accounts, i, other)]
    /\ nops' = nops + 1
    /\ UNCHANGED <<accounts, ledger, next_account_number>>
    /\ UNCHANGED <<arrVars, threads>>

Next ==
    \/ \E name \in NameInputs, b \in AmountInputs : Construct(name, b)
    \/ \E i \in 1..MaxAccounts, a \in AmountInputs : Deposit(i, a)
    \/ \E i \in 1..MaxAccounts, a \in AmountInputs : Withdraw(i, a)
    \/ \E i \in 1..MaxAccounts, j \in 0..MaxAccounts, a \in AmountInputs :
            TransferTo(i, j, a)
    \/ \E i \in 1..MaxAccounts, j \in 0..MaxAccounts : Equals(i, j)

Spec == Init /\ [][Next]_vars

\* --------------------------------------- several accounts side by side
\* account = BankAccount(name, initial_balance), as in Construct, for runs
\* that hold up to MaxOpened accounts; the calls made on them afterwards
\* are the actions above.
Open(name, initial_balance) ==
    /\ Len(accounts) < MaxOpened
    /\ LET r == init(name, initial_balance, next_account_number)
       IN  /\ accounts' = IF r.exc = "" THEN Append(accounts, r.account) ELSE accounts
           /\ ledger' = IF r.exc = "" THEN Append(ledger, r.account.balance) ELSE ledger
           /\ next_account_number' = r.next
           /\ last' = Call("init", 0, 0, name, initial_balance, r.exc, <<>>)
    /\ UNCHANGED <<nops, arrVars, threads>>

OpenNames == {StrName(<<"A">>), StrName(<<" ", "B", " ">>)}

OpenBalances == {IntArg(5), IntArg(BigAmount), IntArg(-5)}

\* One call is made on the accounts of such a run; accounts are opened
\* before and after it.
IsolationNext ==
    \/ \E name \in OpenNames, b \in OpenBalances : Open(name, b)
    \/ /\ nops = 0
       /\ \/ \E i \in 1..MaxOpened, a \in AmountInputs : Deposit(i, a)
          \/ \E i \in 1..MaxOpened, a \in AmountInputs : Withdraw(i, a)
          \/ \E i \in 1..MaxOpened, j \in 0..MaxOpened, a \in AmountInputs :
                  TransferTo(i, j, a)
          \/ \E i \in 1..MaxOpened, j \in 0..MaxOpened : Equals(i, j)

IsolationSpec == Init /\ [][IsolationNext]_vars

\* ---------------------------------------------------------- Array actions
bankVars == <<accounts, next_account_number, last, ledger, nops, threads>>

\* arr = Array(sz, default_value): the one constructor call of a behaviour.
\* A failed call leaves no object, so nothing can follow it.
ArrayConstruct(sz, default_value) ==
    /\ size = 0
    /\ alast.op = "none"
    /\ LET r == array_init(sz, default_value)
       IN  /\ size' = r.size
           /\ items' = r.items
           /\ alast' = [ArrayCall("init", 0, None, r.exc, FALSE, NotFound)
                            EXCEPT !.sz = sz, !.default = default_value]
    /\ UNCHANGED bankVars

\* arr.insert_first(element)
InsertFirst(element) ==
    /\ size > 0
    /\ LET r == insert_first(items, size, element)
       IN  /\ items' = r.items
           /\ alast' = ArrayCall("insert_first", 0, element, r.exc, FALSE, NotFound)
    /\ UNCHANGED <<size, bankVars>>

\* arr.insert_at_index(index, element)
InsertAtIndex(index, element) ==
    /\ size > 0
    /\ LET r == insert_at_index(items, size, index, element)
       IN  /\ items' = r.items
           /\ alast' = ArrayCall("insert_at_index", index, element, r.exc, FALSE, NotFound)
    /\ UNCHANGED <<size, bankVars>>

\* arr.insert_after_index(index, element)
InsertAfterIndex(index, element) ==
    /\ size > 0
    /\ LET r == insert_after_index(items, size, index, element)
       IN  /\ items' = r.items
           /\ alast' = ArrayCall("insert_after_index", index, element, r.exc, FALSE, NotFound)
    /\ UNCHANGED <<size, bankVars>>

\* arr.insert_before_index(index, element)
InsertBeforeIndex(index, element) ==
    /\ size > 0
    /\ LET r == insert_before_index(items, size, index, element)
       IN  /\ items' = r.items
           /\ alast' = ArrayCall("insert_before_index", index, element, r.exc, FALSE, NotFound)
    /\ UNCHANGED <<size, bankVars>>

\* arr.delete(element)
Delete(element) ==
    /\ size > 0
    /\ LET r == delete(items, element)
       IN  /\ items' = r.items
           /\ alast' = ArrayCall("delete", 0, element, "", r.found, NotFound)
    /\ UNCHANGED <<size, bankVars>>

\* arr.search(element)
Search(element) ==
    /\ size > 0
    /\ alast' = ArrayCall("search", 0, element, "", FALSE, search(items, element))
    /\ UNCHANGED <<size, items, bankVars>>

ArrayNext ==
    \/ \E sz \in SizeInputs, d \in DefaultInputs : ArrayConstruct(sz, d)
    \/ \E e \in Elements : InsertFirst(e)
    \/ \E i \in IndexInputs, e \in Elements : InsertAtIndex(i, e)
    \/ \E i \in IndexInputs, e \in Elements : InsertAfterIndex(i, e)
    \/ \E i \in IndexInputs, e \in Elements : InsertBeforeIndex(i, e)
    \/ \E e \in Elements : Delete(e)
    \/ \E e \in Elements : Search(e)

ArraySpec == Init /\ [][ArrayNext]_vars

\* ------------------------------------- concurrent construction: actions
\* Thread t runs __init__ up to the assignment of self.balance: the checks,
\* which raise, and the name and balance of its own object.
ThreadBegin(t, name, initial_balance) ==
    /\ threads[t].pc = "start"
    /\ LET r == init(name, initial_balance, 0)
       IN  threads' = [threads EXCEPT ![t] =
                          IF r.exc # ""
                          THEN [pc |-> "failed", exc |-> r.exc, account |-> r.account]
                          ELSE [pc |-> "read", exc |-> "", account |-> r.account]]
    /\ UNCHANGED <<accounts, next_account_number, last, ledger, nops, arrVars>>

\* self.account_number = BankAccount._next_account_number
ThreadReadCounter(t) ==
    /\ threads[t].pc = "read"
    /\ threads' = [threads EXCEPT ![t].pc = "increment",
                                  ![t].account.account_number = next_account_number]
    /\ UNCHANGED <<accounts, next_account_number, last, ledger, nops, arrVars>>

\* BankAccount._next_account_number += 1
ThreadIncrement(t) ==
    /\ threads[t].pc = "increment"
    /\ next_account_number' = next_account_number + 1
    /\ threads' = [threads EXCEPT ![t].pc = "done"]
    /\ UNCHANGED <<accounts, last, ledger, nops, arrVars>>

ThreadNext ==
    \/ \E t \in Threads, name \in NameInputs, b \in AmountInputs : ThreadBegin(t, name, b)
    \/ \E t \in Threads : ThreadReadCounter(t)
    \/ \E t \in Threads : ThreadIncrement(t)

ThreadSpec == Init /\ [][ThreadNext]_vars

\* ------------------------------------------------------------ properties
Balance(accts, i) == accts[i].balance

AmountOf(call) == ToDecimal(call.amount)

\* 0 < amount: the amount parsed to a number that is strictly positive.
PositiveAmount(call) ==
    /\ AmountOf(call).exc = ""
    /\ ~IsNaN(AmountOf(call).val)
    /\ DecLess(Zero, AmountOf(call).val)

\* C1: every existing account has balance >= 0 in every reachable state,
\* whatever sequence of successful or failed constructions, deposits,
\* withdrawals and transfers led to it.
C1_BalanceNonNegative ==
    \A i \in DOMAIN accounts :
        /\ ~IsNaN(Balance(accounts, i))
        /\ ~DecLess(Balance(accounts, i), Zero)

\* A withdrawal of the whole (positive) balance succeeded and left exactly zero.
C1_Witness ==
    /\ last.op = "withdraw"
    /\ last.exc = ""
    /\ DecLess(Zero, Balance(last.pre, last.self))
    /\ Balance(accounts, last.self) = Zero

\* C2: whenever transfer_to fails, the balances of the sender and of the
\* intended receiver are exactly what they were before the call.
C2_TransferAllOrNothing ==
    (last.op = "transfer_to" /\ last.exc # "") => accounts = last.pre

\* C3: every failed deposit or withdraw leaves the account's balance (and
\* every other account) unchanged, for every balance and every amount.
C3_FailedCallKeepsBalance ==
    (last.op \in {"deposit", "withdraw"} /\ last.exc # "") => accounts = last.pre

\* A withdrawal was refused for insufficient funds on an account holding money.
C3_Witness ==
    /\ last.op = "withdraw"
    /\ last.exc = "InsufficientFundsError"
    /\ DecLess(Zero, Balance(accounts, last.self))

\* C4: a successful transfer between two distinct accounts takes exactly the
\* amount from the sender, adds exactly the amount to the receiver, returns
\* the two new balances, and so leaves the sum of the two balances unchanged.
C4_TransferExact ==
    (last.op = "transfer_to" /\ last.exc = "" /\ last.self # last.other) =>
        LET v == AmountOf(last).val
            s0 == Balance(last.pre, last.self)
            r0 == Balance(last.pre, last.other)
            s1 == Balance(accounts, last.self)
            r1 == Balance(accounts, last.other)
        IN  /\ s1 = ExactSub(s0, v)
            /\ r1 = ExactAdd(r0, v)
            /\ last.ret = <<s1, r1>>
            /\ ExactAdd(s1, r1) = ExactAdd(s0, r0)

\* C5: withdraw(amount) succeeds exactly when 0 < amount <= balance; on
\* success the balance decreases by amount and the returned value is the new
\* balance; when amount > 0 and amount > balance it fails with
\* InsufficientFunds.
C5_WithdrawContract ==
    last.op = "withdraw" =>
        LET v == AmountOf(last).val
            b0 == Balance(last.pre, last.self)
            b1 == Balance(accounts, last.self)
            covered == PositiveAmount(last) /\ ~DecLess(b0, v)
        IN  /\ last.exc = "" <=> covered
            /\ last.exc = "" => (b1 = ExactSub(b0, v) /\ last.ret = <<b1>>)
            /\ (PositiveAmount(last) /\ DecLess(b0, v)) =>
                    last.exc = "InsufficientFundsError"

\* C6: deposit(amount) succeeds exactly when amount > 0; on success the
\* balance increases by exactly amount and the returned value is the new
\* balance; a zero or negative amount fails with InvalidAmount.
C6_DepositContract ==
    last.op = "deposit" =>
        LET v == AmountOf(last).val
            b0 == Balance(last.pre, last.self)
            b1 == Balance(accounts, last.self)
        IN  /\ last.exc = "" <=> PositiveAmount(last)
            /\ last.exc = "" => (b1 = ExactAdd(b0, v) /\ last.ret = <<b1>>)
            /\ (AmountOf(last).exc = "" /\ ~IsNaN(v) /\ ~DecLess(Zero, v)) =>
                    last.exc = "InvalidAmountError"

\* C7: for every account state and every amount d > 0, deposit(d) followed
\* at once by withdraw(d) on the same account succeeds and restores the
\* balance to exactly its value before the deposit.
C7_DepositWithdrawRoundTrip ==
    [][(/\ last.op = "deposit" /\ last.exc = ""
        /\ last'.op = "withdraw"
        /\ last'.self = last.self
        /\ last'.amount = last.amount)
            => (/\ last'.exc = ""
                /\ Balance(accounts', last.self) = Balance(last.pre, last.self))]_vars

\* C8: after any sequence of operations the balance of an account equals its
\* initial balance plus the successfully deposited amounts minus the
\* successfully withdrawn amounts, computed exactly.
C8_BalanceIsExactSum ==
    \A i \in DOMAIN accounts : Balance(accounts, i) = ledger[i]

\* C9: no two constructed accounts share an account number, and an account
\* constructed later has a strictly larger number than any constructed earlier.
C9_IdsStrictlyIncrease ==
    \A i, j \in DOMAIN accounts :
        i < j => accounts[i].account_number < accounts[j].account_number

\* Two accounts have been constructed.
C9_Witness ==
    /\ Len(accounts) = 2
    /\ last.op = "init"
    /\ last.exc = ""

\* C10: the counter starts at 1000, advances by exactly 1 per successful
\* construction and by 0 per failed one, so the k-th account constructed has
\* number 1000 + (k - 1) however many constructions failed; no deposit,
\* withdraw or transfer changes the counter.
C10_CounterCountsSuccesses ==
    /\ next_account_number = FirstAccountNumber + Len(accounts)
    /\ \A k \in DOMAIN accounts :
            accounts[k].account_number = FirstAccountNumber + (k - 1)
    /\ (last.op = "init" /\ last.exc = "") => next_account_number = last.pre_next + 1
    /\ (last.op = "init" /\ last.exc # "") => next_account_number = last.pre_next
    /\ last.op \in {"deposit", "withdraw", "transfer_to"} =>
            next_account_number = last.pre_next

\* A construction failed after one had succeeded: the counter stayed put.
C10_Witness ==
    /\ last.op = "init"
    /\ last.exc # ""
    /\ Len(accounts) = 1
    /\ next_account_number = FirstAccountNumber + 1

\* The name argument is a string that is not blank.
ValidName(name) == name.type = "str" /\ strip(name.chars) # <<>>

\* C11: constructing with a valid holder name and a negative initial balance
\* fails with the negative-balance error (ValueError), not InvalidAmountError;
\* an unparsable initial balance fails with InvalidAmountError; in both cases
\* no account is created.
C11_InitErrorKinds ==
    (last.op = "init" /\ ValidName(last.name)) =>
        LET c == AmountOf(last)
        IN  /\ (c.exc = "" /\ ~IsNaN(c.val) /\ DecLess(c.val, Zero)) =>
                    (last.exc = "ValueError" /\ accounts = last.pre)
            /\ c.exc # "" => (last.exc = "InvalidAmountError" /\ accounts = last.pre)

\* A construction with a valid name and a negative balance was refused.
C11_Witness ==
    /\ last.op = "init"
    /\ ValidName(last.name)
    /\ AmountOf(last).exc = ""
    /\ DecLess(AmountOf(last).val, Zero)
    /\ last.exc = "ValueError"

\* C12: a == b holds iff b is an account and the two account numbers are
\* equal, whatever the names and balances: every account equals itself, and
\* two separately constructed accounts are never equal, even with the same
\* name and balance.
C12_EqualityById ==
    last.op = "eq" =>
        /\ last.eq <=> (/\ last.other # NotAnAccount
                        /\ accounts[last.self].account_number
                                = accounts[last.other].account_number)
        /\ last.other = last.self => last.eq
        /\ (last.other # NotAnAccount /\ last.other # last.self) => ~last.eq

\* Two distinct accounts with the same holder name and balance were compared.
C12_Witness ==
    /\ last.op = "eq"
    /\ last.other # NotAnAccount
    /\ last.other # last.self
    /\ accounts[last.self].name = accounts[last.other].name
    /\ accounts[last.self].balance = accounts[last.other].balance
    /\ ~last.eq

\* ===================================================== Array properties
\* The non-empty slots are exactly the first get_length() slots.
FrontPacked(its) == \A i \in DOMAIN its : (i <= get_length(its)) <=> (its[i] # None)

InsertOps == {"insert_first", "insert_at_index", "insert_after_index", "insert_before_index"}

\* C13 (as stated): every insert of a value and every delete applied to a
\* front-packed array leaves the array front-packed.
C13_FrontPackedMaintained ==
    (/\ FrontPacked(alast.pre)
     /\ \/ alast.op \in InsertOps /\ alast.element # None
        \/ alast.op = "delete")
        => FrontPacked(items)

\* C13 (amended): applied to a front-packed array, every insert of a
\* non-empty value (successful or failed) leaves it front-packed; a delete
\* leaves it front-packed exactly when nothing was found, or the empty marker
\* was deleted, or the deleted slot was the last occupied one.  Any other
\* delete leaves a hole.
C13_FrontPackedAmended ==
    FrontPacked(alast.pre) =>
        /\ (alast.op \in InsertOps /\ alast.element # None) => FrontPacked(items)
        /\ alast.op = "delete" =>
               (FrontPacked(items) <=>
                   \/ ~alast.found
                   \/ alast.element = None
                   \/ index_of(alast.pre, alast.element) = get_length(alast.pre) - 1)

\* A delete took a stored value out of the middle of a front-packed array.
C13_Witness ==
    /\ alast.op = "delete"
    /\ alast.found
    /\ FrontPacked(alast.pre)
    /\ get_length(alast.pre) >= 2
    /\ ~FrontPacked(items)

C15_InsertAtIndexEffect ==
    (alast.op = "insert_at_index" /\ alast.exc = "") =>
        LET L == get_length(alast.pre)
        IN  /\ Len(items) = Len(alast.pre)
            /\ \A j \in 0..(size - 1) :
                   Get(items, j) =
                       IF j = alast.index THEN alast.element
                       ELSE IF j > alast.index /\ j <= L THEN Get(alast.pre, j - 1)
                       ELSE Get(alast.pre, j)

\* A successful insert_at_index moved at least two slots, of different
\* content, in an array that had a hole.
C15_Witness ==
    /\ alast.op = "insert_at_index"
    /\ alast.exc = ""
    /\ ~FrontPacked(alast.pre)
    /\ alast.index + 2 <= get_length(alast.pre)
    /\ Get(alast.pre, alast.index) # Get(alast.pre, alast.index + 1)

\* C16: on an array that is not full, insert_at_index(index, value) fails
\* with IndexError exactly when index < 0 or index > get_length(), and then
\* changes nothing; with index = get_length() it always succeeds and writes
\* value into slot get_length(), every other slot staying as it was.
C16_InsertAtIndexBounds ==
    (alast.op = "insert_at_index" /\ get_length(alast.pre) < size) =>
        LET L == get_length(alast.pre)
        IN  /\ alast.exc \in {"", "IndexError"}
            /\ alast.exc = "IndexError" <=> (alast.index < 0 \/ alast.index > L)
            /\ alast.exc = "IndexError" => items = alast.pre
            /\ alast.index = L =>
                   /\ alast.exc = ""
                   /\ items = Set(alast.pre, L, alast.element)

\* insert_at_index was called with index = get_length() on an array holding
\* something, and appended.
C16_Witness ==
    /\ alast.op = "insert_at_index"
    /\ alast.index = get_length(alast.pre)
    /\ alast.index >= 1
    /\ alast.element # None
    /\ alast.exc = ""
    /\ Get(items, alast.index) = alast.element

\* C17: on an array that is not full, insert_after_index(index, value) fails
\* with IndexError exactly when index < 0 or index >= get_length() (so
\* index = get_length() is refused), and then changes nothing; otherwise it
\* succeeds, the call insert_at_index(index + 1, value) on the same slots
\* does not fail, and the resulting slots are those of that call: value in
\* slot index + 1, slots (index, L) moved one to the right, the rest unchanged.
C17_InsertAfterIndex ==
    (alast.op = "insert_after_index" /\ get_length(alast.pre) < size) =>
        LET L == get_length(alast.pre)
            r == insert_at_index(alast.pre, size, alast.index + 1, alast.element)
        IN  /\ alast.exc \in {"", "IndexError"}
            /\ alast.exc = "IndexError" <=> (alast.index < 0 \/ alast.index >= L)
            /\ alast.exc = "IndexError" => items = alast.pre
            /\ alast.exc = "" =>
                   /\ r.exc = ""
                   /\ items = r.items
                   /\ \A j \in 0..(size - 1) :
                          Get(items, j) =
                              IF j = alast.index + 1 THEN alast.element
                              ELSE IF j > alast.index + 1 /\ j <= L THEN Get(alast.pre, j - 1)
                              ELSE Get(alast.pre, j)

\* A successful insert_after_index put a value between two stored elements.
C17_Witness ==
    /\ alast.op = "insert_after_index"
    /\ alast.exc = ""
    /\ alast.index + 1 < get_length(alast.pre)
    /\ alast.element # None
    /\ Get(alast.pre, alast.index) # alast.element
    /\ Get(items, alast.index + 1) = alast.element

\* C18: insert_before_index and insert_at_index cannot be told apart: called
\* on the same slots with the same index and value, both fail with the same
\* kind of error (leaving the slots alone) or both succeed with the same
\* resulting slots.
C18_InsertBeforeIsInsertAt ==
    /\ alast.op = "insert_before_index" =>
           LET r == insert_at_index(alast.pre, size, alast.index, alast.element)
           IN  alast.exc = r.exc /\ items = r.items
    /\ alast.op = "insert_at_index" =>
           LET r == insert_before_index(alast.pre, size, alast.index, alast.element)
           IN  alast.exc = r.exc /\ items = r.items

\* insert_before_index succeeded at the boundary index get_length().
C18_Witness ==
    /\ alast.op = "insert_before_index"
    /\ alast.exc = ""
    /\ alast.index = get_length(alast.pre)
    /\ alast.index >= 1
    /\ alast.element # None
    /\ items # alast.pre

\* C19: after a successful insert_first(value), slot 0 holds value and every
\* value that was stored in a non-empty slot i is stored in slot i + 1:
\* nothing stored is overwritten or lost.
C19_InsertFirstShiftsAll ==
    (alast.op = "insert_first" /\ alast.exc = "") =>
        /\ Get(items, 0) = alast.element
        /\ \A i \in 0..(size - 1) :
               Get(alast.pre, i) # None =>
                   /\ i + 1 <= size - 1
                   /\ Get(items, i + 1) = Get(alast.pre, i)

\* C20: a successful insert of a non-empty value, by any of the four insert
\* operations, makes get_length() exactly one larger.
C20_InsertAddsOne ==
    (alast.op \in InsertOps /\ alast.exc = "" /\ alast.element # None) =>
        get_length(items) = get_length(alast.pre) + 1

\* C21: an insert operation that fails, with ArrayError (full) or with
\* IndexError, leaves every slot and the size as they were before the call.
C21_FailedInsertChangesNothing ==
    (alast.op \in InsertOps /\ alast.exc # "") =>
        /\ alast.exc \in {"ArrayError", "IndexError"}
        /\ items = alast.pre
        /\ size = alast.sz.n

\* insert_first failed on a full array whose first slot holds another value.
C21_Witness ==
    /\ alast.op = "insert_first"
    /\ alast.exc = "ArrayError"
    /\ size >= 2
    /\ Get(alast.pre, 0) # alast.element

\* C22: delete(value) for a value that no slot holds returns False and
\* leaves every slot, and so get_length(), unchanged.
C22_DeleteAbsent ==
    (alast.op = "delete" /\ \A i \in DOMAIN alast.pre : alast.pre[i] # alast.element) =>
        /\ ~alast.found
        /\ alast.exc = ""
        /\ items = alast.pre
        /\ get_length(items) = get_length(alast.pre)

\* delete was asked for a value that a non-empty array does not hold.
C22_Witness ==
    /\ alast.op = "delete"
    /\ alast.element # None
    /\ get_length(alast.pre) >= 1
    /\ \A i \in DOMAIN alast.pre : alast.pre[i] # alast.element
    /\ ~alast.found

\* C23: delete(value) for a non-empty value that some slot holds returns
\* True, empties the lowest-index slot equal to value and no other slot
\* (later duplicates stay, nothing is shifted), and get_length() goes down
\* by exactly 1.
C23_DeletePresent ==
    (/\ alast.op = "delete"
     /\ alast.element # None
     /\ \E i \in DOMAIN alast.pre : alast.pre[i] = alast.element) =>
        /\ alast.found
        /\ alast.exc = ""
        /\ \E i \in DOMAIN alast.pre :
               /\ alast.pre[i] = alast.element
               /\ \A j \in 1..(i - 1) : alast.pre[j] # alast.element
               /\ items = [alast.pre EXCEPT ![i] = None]
        /\ get_length(items) = get_length(alast.pre) - 1

\* delete removed the first of two equal stored values, with another
\* element stored behind the slot it emptied.
C23_Witness ==
    /\ alast.op = "delete"
    /\ alast.found
    /\ alast.element # None
    /\ Cardinality({i \in DOMAIN alast.pre : alast.pre[i] = alast.element}) >= 2
    /\ \E i \in DOMAIN items : items[i] = alast.element
    /\ ~FrontPacked(items)

\* C24: search(value) returns the lowest index, over all size slots, of a
\* slot equal to value, or not-found when no slot is, and changes no slot; a
\* value that lies beyond a hole is found.
C24_SearchAllSlots ==
    alast.op = "search" =>
        /\ items = alast.pre
        /\ alast.exc = ""
        /\ IF \A i \in 0..(size - 1) : Get(alast.pre, i) # alast.element
           THEN alast.ret = NotFound
           ELSE /\ alast.ret \in 0..(size - 1)
                /\ Get(alast.pre, alast.ret) = alast.element
                /\ \A i \in 0..(alast.ret - 1) : Get(alast.pre, i) # alast.element

\* search found a stored value that lies beyond a hole, outside the first
\* get_length() slots.
C24_Witness ==
    /\ alast.op = "search"
    /\ alast.element # None
    /\ alast.ret # NotFound
    /\ alast.ret >= get_length(items)
    /\ \E i \in 0..(alast.ret - 1) : Get(items, i) = None

\* No non-empty value is held by two slots.
DistinctStored(its) ==
    \A i, j \in DOMAIN its : (i # j /\ its[i] # None) => its[i] # its[j]

StoredValues(its) == {its[i] : i \in DOMAIN its} \ {None}

\* The orders in which the values of vs can be taken one after another.
Orders(vs) ==
    {o \in [1..Cardinality(vs) -> vs] : \A i, j \in DOMAIN o : i # j => o[i] # o[j]}

\* arr.delete(order[1]); arr.search(order[1]); arr.delete(order[2]); ... :
\* the slots at the end, whether every delete returned True, and whether
\* every search made right after its delete returned not-found.
RECURSIVE delete_each(_, _)
delete_each(its, order) ==
    IF order = <<>> THEN [items |-> its, found |-> TRUE, gone |-> TRUE]
    ELSE LET d == delete(its, Head(order))
             r == delete_each(d.items, Tail(order))
         IN  [items |-> r.items,
              found |-> d.found /\ r.found,
              gone |-> search(d.items, Head(order)) = NotFound /\ r.gone]

\* C25: where the stored (non-empty) values are pairwise distinct, as after
\* construction from a list of distinct values, a delete(v) that returns True
\* for a stored value v leaves search(v) returning not-found; and deleting
\* every stored value, in any order, returns True each time, gives not-found
\* for each value and ends with get_length() = 0.
C25_DeleteThenSearch ==
    /\ (/\ alast.op = "delete"
        /\ alast.found
        /\ alast.element # None
        /\ DistinctStored(alast.pre))
           => search(items, alast.element) = NotFound
    /\ (size > 0 /\ DistinctStored(items)) =>
           \A order \in Orders(StoredValues(items)) :
               LET r == delete_each(items, order)
               IN  /\ r.found
                   /\ r.gone
                   /\ get_length(r.items) = 0
                   /\ \A v \in StoredValues(items) : search(r.items, v) = NotFound

\* delete returned True for one of several distinct stored values.
C25_Witness ==
    /\ alast.op = "delete"
    /\ alast.found
    /\ alast.element # None
    /\ DistinctStored(alast.pre)
    /\ get_length(alast.pre) >= 2
    /\ search(items, alast.element) = NotFound

\* C26: the empty marker None is matched like a value: when at least one
\* slot is empty, delete(None) returns True and leaves all slots and
\* get_length() unchanged, and search(None) returns the lowest index of an
\* empty slot.
C26_EmptyMarkerMatches ==
    (alast.element = None /\ \E i \in DOMAIN alast.pre : alast.pre[i] = None) =>
        /\ alast.op = "delete" =>
               /\ alast.found
               /\ items = alast.pre
               /\ get_length(items) = get_length(alast.pre)
        /\ alast.op = "search" =>
               /\ alast.ret \in 0..(size - 1)
               /\ Get(alast.pre, alast.ret) = None
               /\ \A i \in 0..(alast.ret - 1) : Get(alast.pre, i) # None

\* delete(None) returned True on an array that holds values and has an
\* empty slot.
C26_Witness ==
    /\ alast.op = "delete"
    /\ alast.element = None
    /\ alast.found
    /\ get_length(alast.pre) >= 1
    /\ items = alast.pre

\* C27: the capacity is fixed: once an Array exists, after every call,
\* successful or failed, size is the value given to the constructor (the
\* value it had before the call), items has exactly size slots, and
\* 0 <= get_length() <= size.
C27_CapacityFixed ==
    size > 0 =>
        /\ alast.sz = IntSize(size)
        /\ Len(items) = size
        /\ Len(alast.pre) = (IF alast.op = "init" THEN 0 ELSE size)
        /\ get_length(items) \in 0..size

\* A successful insert filled the last free slot of an array of several slots.
C27_Witness ==
    /\ alast.op \in InsertOps
    /\ alast.exc = ""
    /\ size >= 2
    /\ get_length(alast.pre) = size - 1
    /\ get_length(items) = size

\* Array(sz, list) with a valid size was the call just made.
ListConstruction ==
    /\ alast.op = "init"
    /\ alast.default.kind = "list"
    /\ alast.sz.type = "int"
    /\ alast.sz.n > 0

\* C28 (as stated): constructing with a list of k <= size values gives the
\* list followed by size - k empty slots, a front-packed array of logical
\* length k; a longer list fails with ValueError and no array is created.
C28_ListConstruction ==
    ListConstruction =>
        LET l == alast.default.l
        IN  IF Len(l) <= alast.sz.n
            THEN /\ alast.exc = ""
                 /\ size = alast.sz.n
                 /\ items = l \o Repeat(None, size - Len(l))
                 /\ FrontPacked(items)
                 /\ get_length(items) = Len(l)
            ELSE alast.exc = "ValueError" /\ size = 0 /\ items = <<>>

\* C28 (amended): constructing with a list of k <= size entries gives the
\* list followed by size - k empty slots, and get_length() is the number of
\* entries that are not None; the array is front-packed with logical length
\* k exactly when no entry of the list is None.  A longer list fails with
\* ValueError and no array is created.
C28_ListConstructionAmended ==
    ListConstruction =>
        LET l == alast.default.l
        IN  IF Len(l) <= alast.sz.n
            THEN /\ alast.exc = ""
                 /\ size = alast.sz.n
                 /\ items = l \o Repeat(None, size - Len(l))
                 /\ get_length(items) = Cardinality({i \in DOMAIN l : l[i] # None})
                 /\ (FrontPacked(items) /\ get_length(items) = Len(l))
                        <=> (\A i \in DOMAIN l : l[i] # None)
            ELSE alast.exc = "ValueError" /\ size = 0 /\ items = <<>>

\* An Array was built from a list, shorter than the size, that has a None
\* before a value.
C28_Witness ==
    /\ ListConstruction
    /\ alast.exc = ""
    /\ Len(alast.default.l) < size
    /\ \E i, j \in DOMAIN alast.default.l :
           i < j /\ alast.default.l[i] = None /\ alast.default.l[j] # None
    /\ ~FrontPacked(items)

\* ================================== concurrent construction: properties
\* Thread t's object has been given its account number.
HasNumber(t) == threads[t].pc \in {"increment", "done"}

\* C29: when account constructions interleave statement by statement (the
\* read of the counter, then its increment), any two accounts still get
\* distinct account numbers.
C29_ConcurrentIdsDistinct ==
    \A t, u \in Threads :
        (t # u /\ HasNumber(t) /\ HasNumber(u)) =>
            threads[t].account.account_number # threads[u].account.account_number

\* amount <= 0: the amount parsed to a number that is zero or negative.
ZeroOrNegativeAmount(call) ==
    /\ AmountOf(call).exc = ""
    /\ ~IsNaN(AmountOf(call).val)
    /\ ~DecLess(Zero, AmountOf(call).val)

\* C30: withdraw, and transfer_to with an account as destination, fail with
\* InvalidAmountError, never InsufficientFundsError, for every zero or
\* negative amount and every balance, 0 included; transfer_to with a
\* destination that is no account fails with TypeError for every amount,
\* valid or not.  Such a failed call leaves every balance as it was.
C30_ValidationPrecedence ==
    /\ (/\ last.op = "withdraw" \/ (last.op = "transfer_to" /\ last.other # NotAnAccount)
        /\ ZeroOrNegativeAmount(last))
           => (last.exc = "InvalidAmountError" /\ accounts = last.pre)
    /\ (last.op = "transfer_to" /\ last.other = NotAnAccount)
           => (last.exc = "TypeError" /\ accounts = last.pre)

\* transfer_to was called with a destination that is no account and an
\* amount that withdraw would have refused, from an account with balance 0.
C30_Witness ==
    /\ last.op = "transfer_to"
    /\ last.other = NotAnAccount
    /\ ZeroOrNegativeAmount(last)
    /\ last.pre[last.self].balance = Zero
    /\ last.exc = "TypeError"

\* The first get_length() slots, as an ordinary sequence.
Prefix(its) == SubSeq(its, 1, get_length(its))

\* list.insert(pos, element) on an ordinary sequence, for 0 <= pos <= len.
SeqInsert(seq, pos, element) ==
    SubSeq(seq, 1, pos) \o <<element>> \o SubSeq(seq, pos + 1, Len(seq))

\* The position at which the insert call just made asked to put its element.
InsertPosition ==
    IF alast.op = "insert_first" THEN 0
    ELSE IF alast.op = "insert_after_index" THEN alast.index + 1
    ELSE alast.index

\* C31: an insert of a non-empty value into a front-packed array leaves it
\* front-packed with the same number of slots; a successful one makes the
\* stored prefix the old prefix with the value inserted at the requested
\* position, as on an ordinary sequence, and a failed one leaves the prefix
\* as it was.  (By induction this covers every sequence of such inserts
\* from a front-packed start.)
C31_InsertsActOnPrefix ==
    (alast.op \in InsertOps /\ alast.element # None /\ FrontPacked(alast.pre)) =>
        /\ FrontPacked(items)
        /\ Len(items) = Len(alast.pre)
        /\ IF alast.exc = ""
           THEN /\ InsertPosition \in 0..get_length(alast.pre)
                /\ Prefix(items) = SeqInsert(Prefix(alast.pre), InsertPosition, alast.element)
           ELSE Prefix(items) = Prefix(alast.pre)

\* A value was inserted strictly inside the stored prefix of a front-packed
\* array holding at least two different values.
C31_Witness ==
    /\ alast.op \in InsertOps
    /\ alast.exc = ""
    /\ alast.element # None
    /\ FrontPacked(alast.pre)
    /\ InsertPosition >= 1
    /\ InsertPosition < get_length(alast.pre)
    /\ Get(alast.pre, 0) # Get(alast.pre, 1)

\* The argument of the insert call just made passes the method's index check.
IndexCheckPasses ==
    LET L == get_length(alast.pre)
    IN  \/ alast.op = "insert_first"
        \/ alast.op \in {"insert_at_index", "insert_before_index"} /\ alast.index \in 0..L
        \/ alast.op = "insert_after_index" /\ alast.index \in 0..(L - 1)

\* The slot indexes the shift loop and the final store read or write.
TouchedIndexes ==
    LET L == get_length(alast.pre)
    IN  {InsertPosition} \cup UNION {{i, i - 1} : i \in (InsertPosition + 1)..L}

\* C32: no insert operation touches a slot index outside 0 .. size - 1,
\* holes or not: an IndexError comes only from a method's own index check
\* on an array that is not full, never from a list access, and once the
\* fullness and index checks have passed the call succeeds and every index
\* used by the shift loop and the final store lies in 0 .. size - 1.
C32_InsertStaysInBounds ==
    alast.op \in InsertOps =>
        /\ alast.exc \in {"", "ArrayError", "IndexError"}
        /\ alast.exc = "ArrayError" <=> get_length(alast.pre) >= size
        /\ alast.exc = "IndexError" <=> (get_length(alast.pre) < size /\ ~IndexCheckPasses)
        /\ alast.exc = "" =>
               /\ TouchedIndexes \subseteq 0..(size - 1)
               /\ shift_and_store(alast.pre, InsertPosition, alast.element).exc = ""

\* A successful insert into an array with a hole shifted into the last slot.
C32_Witness ==
    /\ alast.op \in InsertOps
    /\ alast.exc = ""
    /\ ~FrontPacked(alast.pre)
    /\ get_length(alast.pre) = size - 1
    /\ InsertPosition < get_length(alast.pre)
    /\ (size - 1) \in TouchedIndexes

\* C33: a transfer from an account to itself with 0 < amount <= balance
\* succeeds, leaves the balance exactly as it was and returns the pair
\* (balance, balance); with amount > balance it fails with
\* InsufficientFundsError and leaves the balance as it was.
C33_SelfTransfer ==
    (last.op = "transfer_to" /\ last.other = last.self /\ PositiveAmount(last)) =>
        LET before == Balance(last.pre, last.self)
        IN  IF DecLess(before, AmountOf(last).val)
            THEN /\ last.exc = "InsufficientFundsError"
                 /\ accounts = last.pre
            ELSE /\ last.exc = ""
                 /\ accounts = last.pre
                 /\ last.ret = <<before, before>>

\* The accounts whose balance the call just made may change.
MayChangeBalance ==
    IF last.op \in {"deposit", "withdraw"} THEN {last.self}
    ELSE IF last.op = "transfer_to" THEN {last.self, last.other}
    ELSE {}

\* C34: account operations are isolated: a deposit or a withdrawal changes
\* nothing but the balance of the account it is called on, transfer_to
\* nothing but the balances of the sender and the receiver, and no call,
\* successful or failed, changes the id or the holder name of any account,
\* the balance of any other account, the number of accounts (a successful
\* construction adds one) or, unless it is a construction, the id counter.
C34_OperationsIsolated ==
    /\ Len(accounts) =
           Len(last.pre) + (IF last.op = "init" /\ last.exc = "" THEN 1 ELSE 0)
    /\ \A k \in DOMAIN last.pre :
           /\ accounts[k].account_number = last.pre[k].account_number
           /\ accounts[k].name = last.pre[k].name
           /\ k \notin MayChangeBalance => accounts[k].balance = last.pre[k].balance
    /\ last.op # "init" => next_account_number = last.pre_next

\* A transfer between two of three accounts changed both their balances.
C34_Witness ==
    /\ last.op = "transfer_to"
    /\ last.exc = ""
    /\ Len(accounts) >= 3
    /\ last.other # last.self
    /\ accounts[last.self].balance # last.pre[last.self].balance
    /\ accounts[last.other].balance # last.pre[last.other].balance
    /\ \E k \in DOMAIN accounts : k \notin {last.self, last.other}

====
